---- MODULE Spec2Model ----
(***************************************************************************)
(* Model of assets/depth2space.py (the DepthToSpace autograd functions,    *)
(* their nn.Module wrappers, create_model and the ONNX symbolic emission)   *)
(* and of assets/fix_cmake_files.py (PathReplacer, CMakeFileProcessor,      *)
(* FixCMakeFilesApp, main).                                                 *)
(*                                                                          *)
(* A tensor is a strided view (storage, size, stride) onto a flat buffer    *)
(* of the heap, as in torch; view / permute / contiguous are modelled by    *)
(* what they do to sizes, strides and storage.                              *)
(***************************************************************************)
EXTENDS Integers, Sequences, FiniteSets, TLC

\* depth2space.py
\*   input    the tensor given to forward: storage, size and stride
\*   fill     how the input's buffer is filled: "arange" or the test's "literal"
\*   heap     the storages, each a flat buffer; the input's is the first
\*   module   the module built by create_model or by a constructor
\*   out      the outcome of the forward: its arguments, the tensor or the error
\*   node     the node emitted by symbolic
\*   wrote    the caller has written into the returned tensor
\* fix_cmake_files.py
\*   sysroot  the --sysroot argument, cmake_sysroot_var of the replacer
\*   backup   not --no-backup
\*   files    the contents of the files of the tree
\*   backups  the .bak files
\*   modified the files the last run reports as modified
\*   runs     how many times main has run
VARIABLES input, fill, heap, module, out, node, wrote,
          sysroot, backup, files, backups, modified, runs

tvars == <<input, fill, heap, module, out, node, wrote>>
fvars == <<sysroot, backup, files, backups, modified, runs>>
vars == <<input, fill, heap, module, out, node, wrote,
          sysroot, backup, files, backups, modified, runs>>

(***************************************************************************)
(* Bounds of the model.                                                    *)
(***************************************************************************)
MaxBatch == 1
MaxChannel == 8
MaxSide == 2
MaxBlock == 3
MaxNegBlock == 2

BlockSizes == (0 - MaxNegBlock)..MaxBlock
Modes == {"DCR", "CRD"}
ModeArgs == {"DCR", "CRD", "dcr"}

(***************************************************************************)
(* Arithmetic and sequence helpers.                                        *)
(***************************************************************************)
Max(a, b) == IF a >= b THEN a ELSE b

RECURSIVE ProdFrom(_, _)
ProdFrom(s, d) == IF d > Len(s) THEN 1 ELSE s[d] * ProdFrom(s, d + 1)

Numel(size) == ProdFrom(size, 1)

RECURSIVE SumProd(_, _, _)
SumProd(idx, stride, d) ==
    IF d > Len(idx) THEN 0 ELSE idx[d] * stride[d] + SumProd(idx, stride, d + 1)

\* the multi-index of the k-th element (row-major, k from 0) of a tensor of this size
Unravel(k, size) ==
    [d \in 1..Len(size) |-> (k \div ProdFrom(size, d + 1)) % size[d]]

\* strides torch gives a freshly allocated contiguous tensor
ContiguousStrides(size) ==
    [d \in 1..Len(size) |->
        ProdFrom([j \in 1..Len(size) |-> Max(size[j], 1)], d + 1)]

\* Tensor.is_contiguous: dimensions of size 1 are not looked at, an empty tensor is contiguous
IsContiguous(t) ==
    \/ Numel(t.size) = 0
    \/ \A d \in 1..Len(t.size) :
          t.size[d] # 1 => t.stride[d] = ProdFrom(t.size, d + 1)

\* position in the storage of the element at multi-index idx
Offset(t, idx) == SumProd(idx, t.stride, 1)

\* value of the k-th element (row-major) of tensor t
ElemAt(h, t, k) == h[t.storage][Offset(t, Unravel(k, t.size)) + 1]

\* the values of a tensor in row-major order
Values(h, t) == [k \in 1..Numel(t.size) |-> ElemAt(h, t, k - 1)]

(***************************************************************************)
(* Tensor.view(shape): the shape check   (at most one -1, no other negative  *)
(* dimension, same number of elements) and the stride computation of a view *)
(* that shares the storage; it fails when the strides do not allow it.      *)
(***************************************************************************)
CountNeg1(shape) == Cardinality({d \in 1..Len(shape) : shape[d] = -1})

\* the shape with its single -1 replaced by the inferred extent
InferSize(shape, numel) ==
    LET others == ProdFrom([d \in 1..Len(shape) |->
                                IF shape[d] = -1 THEN 1 ELSE shape[d]], 1)
    IN  [d \in 1..Len(shape) |->
            IF shape[d] = -1 THEN numel \div others ELSE shape[d]]

ViewShapeOk(shape, numel) ==
    /\ \A d \in 1..Len(shape) : shape[d] >= -1
    /\ CountNeg1(shape) <= 1
    /\ IF CountNeg1(shape) = 1
       THEN LET others == ProdFrom([d \in 1..Len(shape) |->
                                       IF shape[d] = -1 THEN 1 ELSE shape[d]], 1)
            IN  others > 0 /\ numel % others = 0
       ELSE Numel(shape) = numel

\* inner loop of the stride computation: view dimensions taken into the current chunk
RECURSIVE FillChunk(_, _, _, _, _, _)
FillChunk(view_d, view_numel, newstride, tensor_numel, chunk_base, newshape) ==
    IF view_d >= 1 /\ (view_numel < tensor_numel \/ newshape[view_d] = 1)
    THEN FillChunk(view_d - 1, view_numel * newshape[view_d],
                   [newstride EXCEPT ![view_d] = view_numel * chunk_base],
                   tensor_numel, chunk_base, newshape)
    ELSE [view_d |-> view_d, view_numel |-> view_numel, newstride |-> newstride]

\* outer loop: the old dimensions from the last to the first, cut into chunks
\* that are contiguous among themselves
RECURSIVE ChunkLoop(_, _, _, _, _, _, _, _)
ChunkLoop(tensor_d, view_d, chunk_base, tensor_numel, newstride, oldsize, oldstride, newshape) ==
    LET tn == tensor_numel * oldsize[tensor_d]
    IN  IF tensor_d = 1 \/ (oldsize[tensor_d - 1] # 1
                            /\ oldstride[tensor_d - 1] # tn * chunk_base)
        THEN LET f == FillChunk(view_d, 1, newstride, tn, chunk_base, newshape)
             IN  IF f.view_numel # tn
                 THEN [ok |-> FALSE, stride |-> <<>>]
                 ELSE IF tensor_d > 1
                      THEN ChunkLoop(tensor_d - 1, f.view_d, oldstride[tensor_d - 1],
                                     1, f.newstride, oldsize, oldstride, newshape)
                      ELSE [ok |-> f.view_d = 0, stride |-> f.newstride]
        ELSE ChunkLoop(tensor_d - 1, view_d, chunk_base, tn, newstride,
                       oldsize, oldstride, newshape)

ComputeStride(oldsize, oldstride, newshape) ==
    IF Len(oldsize) = 0
    THEN [ok |-> TRUE, stride |-> [d \in 1..Len(newshape) |-> 1]]
    ELSE IF Numel(oldsize) = 0
    THEN [ok |-> TRUE,
          stride |-> IF oldsize = newshape THEN oldstride
                     ELSE ContiguousStrides(newshape)]
    ELSE IF Len(newshape) = 0
    THEN [ok |-> Numel(oldsize) = 1, stride |-> <<>>]
    ELSE ChunkLoop(Len(oldsize), Len(newshape), oldstride[Len(oldsize)], 1,
                   [d \in 1..Len(newshape) |-> 0], oldsize, oldstride, newshape)

View(t, shape) ==
    IF ~ViewShapeOk(shape, Numel(t.size))
    THEN [ok |-> FALSE, t |-> t]
    ELSE LET sz == InferSize(shape, Numel(t.size))
             cs == ComputeStride(t.size, t.stride, sz)
         IN  [ok |-> cs.ok,
              t |-> [storage |-> t.storage, size |-> sz, stride |-> cs.stride]]

\* Tensor.permute(dims), dims counted from 0 as in the source
Permute(t, dims) ==
    [storage |-> t.storage,
     size |-> [i \in 1..Len(dims) |-> t.size[dims[i] + 1]],
     stride |-> [i \in 1..Len(dims) |-> t.stride[dims[i] + 1]]]

\* Tensor.contiguous(): the tensor itself when it is already contiguous,
\* otherwise a copy in a newly allocated storage
Contiguous(h, t) ==
    IF IsContiguous(t)
    THEN [heap |-> h, t |-> t]
    ELSE [heap |-> Append(h, Values(h, t)),
          t |-> [storage |-> Len(h) + 1, size |-> t.size,
                 stride |-> ContiguousStrides(t.size)]]

(***************************************************************************)
(* DepthToSpace_DCR.forward and DepthToSpace_CRD.forward.                  *)
(***************************************************************************)
Raise(kind, h) == [status |-> "error", err |-> kind, heap |-> h,
                   t |-> [storage |-> 0, size |-> <<>>, stride |-> <<>>]]

Return(t, h) == [status |-> "ok", err |-> "", heap |-> h, t |-> t]

\* c // (block_size ** 2), for block_size # 0 and c >= 0
ChannelQuotient(c, block_size) == c \div (block_size * block_size)

DCRView(b, c, h, w, block_size) ==
    <<b, block_size, block_size, ChannelQuotient(c, block_size), h, w>>

\* faulty variant: the two block dimensions exchanged in the permutation
DCRPermutationSwapped == <<0, 3, 4, 2, 5, 1>>

DCRPermutation == <<0, 3, 4, 1, 5, 2>>

CRDView(b, c, h, w, block_size) ==
    <<b, ChannelQuotient(c, block_size), block_size, block_size, h, w>>

\* faulty variant: the two block dimensions exchanged in the permutation
CRDPermutationSwapped == <<0, 1, 4, 3, 5, 2>>

CRDPermutation == <<0, 1, 4, 2, 5, 3>>

\* faulty variant: the spatial extents not multiplied by the block size
OutViewNoUpscale(b, c, h, w, block_size) ==
    <<b, ChannelQuotient(c, block_size), h, w>>

OutView(b, c, h, w, block_size) ==
    <<b, ChannelQuotient(c, block_size), h * block_size, w * block_size>>

\* the body shared by the two forward methods, which differ in the view and the permutation
Rearrange(h, x, block_size, firstView, perm) ==
    LET tmp1 == View(x, firstView)
    IN  IF ~tmp1.ok THEN Raise("RuntimeError", h)
        ELSE LET tmp2 == Contiguous(h, Permute(tmp1.t, perm))
                 y == View(tmp2.t, OutView(x.size[1], x.size[2], x.size[3],
                                           x.size[4], block_size))
             IN  IF ~y.ok THEN Raise("RuntimeError", h)
                 ELSE Return(y.t, tmp2.heap)

DCR_forward(h, x, block_size, mode) ==
    IF Len(x.size) # 4 THEN Raise("ValueError", h)
    ELSE IF block_size = 0 THEN Raise("ZeroDivisionError", h)
    ELSE Rearrange(h, x, block_size,
                   DCRView(x.size[1], x.size[2], x.size[3], x.size[4], block_size),
                   DCRPermutation)

\* faulty variant: the CRD class computing the DCR rearrangement
CRD_forward_collapsed(h, x, block_size, mode) == DCR_forward(h, x, block_size, mode)

CRD_forward(h, x, block_size, mode) ==
    IF Len(x.size) # 4 THEN Raise("ValueError", h)
    ELSE IF block_size = 0 THEN Raise("ZeroDivisionError", h)
    ELSE Rearrange(h, x, block_size,
                   CRDView(x.size[1], x.size[2], x.size[3], x.size[4], block_size),
                   CRDPermutation)

\* Function.apply of the class named cls
Apply(cls, h, x, block_size, mode) ==
    IF cls = "DCR" THEN DCR_forward(h, x, block_size, mode)
    ELSE CRD_forward(h, x, block_size, mode)

\* DepthToSpace_DCR.symbolic / DepthToSpace_CRD.symbolic: g.op("DepthToSpace", ...)
DCR_symbolic(block_size, mode) ==
    [status |-> "ok", op |-> "DepthToSpace", blocksize |-> block_size, mode |-> mode]

CRD_symbolic(block_size, mode) ==
    [status |-> "ok", op |-> "DepthToSpace", blocksize |-> block_size, mode |-> mode]

Symbolic(cls, block_size, mode) ==
    IF cls = "DCR" THEN DCR_symbolic(block_size, mode)
    ELSE CRD_symbolic(block_size, mode)

\* DepthToSpace_DCR_Module(block_size, mode) / DepthToSpace_CRD_Module(block_size, mode)
DCR_Module(block_size, mode) == [cls |-> "DCR", block_size |-> block_size, mode |-> mode]

CRD_Module(block_size, mode) == [cls |-> "CRD", block_size |-> block_size, mode |-> mode]

create_model(block_size, mode) ==
    IF mode = "DCR" THEN DCR_Module(block_size, "DCR")
    ELSE IF mode = "CRD" THEN CRD_Module(block_size, "CRD")
    ELSE [cls |-> "ValueError", block_size |-> block_size, mode |-> mode]


(***************************************************************************)
(* The inputs: 4-D tensors (contiguous, or the transpose of the last two    *)
(* dimensions of a contiguous tensor), the literal tensor of                *)
(* test_depth_to_space, and a few tensors of another rank.                  *)
(***************************************************************************)
Shapes4 ==
    {<<b, c, h, w>> : b \in 0..MaxBatch, c \in 0..MaxChannel,
                      h \in 0..MaxSide, w \in 0..MaxSide}

OtherRankShapes ==
    {<<>>, <<MaxChannel>>, <<MaxChannel, MaxSide, MaxSide>>,
     <<1, 1, MaxChannel, MaxSide, MaxSide>>}

\* 4-D inputs with enough channels for block size 3 with two output channels
\* and block size 2 with three
WideShapes == {<<1, 12, 1, 2>>, <<1, 18, 1, 1>>, <<1, 18, 2, 1>>}

\* x of test_depth_to_space, shape (1, 8, 2, 2), row-major
LiteralShape == <<1, 8, 2, 2>>

LiteralData ==
    <<0, 2, 8, 10,  0, 2, 8, 10,  1, 3, 9, 11,  1, 3, 9, 11,
      4, 6, 12, 14,  4, 6, 12, 14,  5, 7, 13, 15,  5, 7, 13, 15>>

\* torch.arange(n): pairwise distinct values
Arange(n) == [k \in 1..n |-> k - 1]

ContiguousTensor(size) ==
    [storage |-> 1, size |-> size, stride |-> ContiguousStrides(size)]

\* base.transpose(2, 3) of a contiguous base of shape (b, c, w, h)
TransposedTensor(size) ==
    Permute(ContiguousTensor(<<size[1], size[2], size[4], size[3]>>), <<0, 1, 3, 2>>)

InitialBuffer(f, x) == IF f = "literal" THEN LiteralData ELSE Arange(Numel(x.size))

NoTensor == [storage |-> 0, size |-> <<>>, stride |-> <<>>]
NoModule == [cls |-> "none", block_size |-> 0, mode |-> ""]
NoOut == [status |-> "none", cls |-> "", block_size |-> 0, mode |-> "",
          via |-> "", err |-> "", t |-> NoTensor]
NoNode == [status |-> "none", op |-> "", blocksize |-> 0, mode |-> ""]

FixIdle ==
    /\ sysroot = <<>>
    /\ backup = FALSE
    /\ files = <<>>
    /\ backups = <<>>
    /\ modified = <<>>
    /\ runs = 0

Init ==
    /\ \/ /\ fill = "arange"
          /\ \/ \E size \in Shapes4 \cup WideShapes \cup OtherRankShapes :
                   input = ContiguousTensor(size)
             \/ \E size \in Shapes4 \cup WideShapes : input = TransposedTensor(size)
       \/ /\ fill = "literal"
          /\ input = ContiguousTensor(LiteralShape)
    /\ heap = <<InitialBuffer(fill, input)>>
    /\ module = NoModule
    /\ out = NoOut
    /\ node = NoNode
    /\ wrote = FALSE
    /\ FixIdle

\* model = create_model(block_size, mode)
CreateModel ==
    /\ module.cls = "none" /\ out.status = "none"
    /\ \E block_size \in BlockSizes, mode \in ModeArgs :
          module' = create_model(block_size, mode)
    /\ UNCHANGED <<input, fill, heap, out, node, wrote>>
    /\ UNCHANGED fvars

\* model = DepthToSpace_DCR_Module(block_size, mode)
ConstructDCR ==
    /\ module.cls = "none" /\ out.status = "none"
    /\ \E block_size \in BlockSizes, mode \in ModeArgs :
          module' = DCR_Module(block_size, mode)
    /\ UNCHANGED <<input, fill, heap, out, node, wrote>>
    /\ UNCHANGED fvars

\* model = DepthToSpace_CRD_Module(block_size, mode)
ConstructCRD ==
    /\ module.cls = "none" /\ out.status = "none"
    /\ \E block_size \in BlockSizes, mode \in ModeArgs :
          module' = CRD_Module(block_size, mode)
    /\ UNCHANGED <<input, fill, heap, out, node, wrote>>
    /\ UNCHANGED fvars

Outcome(r, cls, block_size, mode, via) ==
    [status |-> r.status, cls |-> cls, block_size |-> block_size, mode |-> mode,
     via |-> via, err |-> r.err, t |-> r.t]

\* y = model(x): the module's forward, DepthToSpace_X.apply(x, self.block_size, self.mode)
ModuleForward ==
    /\ module.cls \in Modes /\ out.status = "none"
    /\ LET r == Apply(module.cls, heap, input, module.block_size, module.mode)
       IN  /\ out' = Outcome(r, module.cls, module.block_size, module.mode, "module")
           /\ heap' = r.heap
    /\ UNCHANGED <<input, fill, module, node, wrote>>
    /\ UNCHANGED fvars

\* y = DepthToSpace_X.apply(x, block_size, mode), called without a module
FunctionApply ==
    /\ module.cls = "none" /\ out.status = "none"
    /\ \E cls \in Modes, block_size \in BlockSizes, mode \in ModeArgs :
          LET r == Apply(cls, heap, input, block_size, mode)
          IN  /\ out' = Outcome(r, cls, block_size, mode, "apply")
              /\ heap' = r.heap
    /\ UNCHANGED <<input, fill, module, node, wrote>>
    /\ UNCHANGED fvars

\* the export's call of the function's symbolic with the module's attributes
EmitNode ==
    /\ module.cls \in Modes /\ node.status = "none"
    /\ node' = Symbolic(module.cls, module.block_size, module.mode)
    /\ UNCHANGED <<input, fill, heap, module, out, wrote>>
    /\ UNCHANGED fvars

\* the caller, who owns the returned tensor, writes one of its elements in place
WriteOutput ==
    /\ out.status = "ok" /\ ~wrote /\ Numel(out.t.size) > 0
    /\ \E k \in {0, Numel(out.t.size) - 1} :
          heap' = [heap EXCEPT
                      ![out.t.storage][Offset(out.t, Unravel(k, out.t.size)) + 1] = -1]
    /\ wrote' = TRUE
    /\ UNCHANGED <<input, fill, module, out, node>>
    /\ UNCHANGED fvars

Next ==
    \/ CreateModel
    \/ ConstructDCR
    \/ ConstructCRD
    \/ ModuleForward
    \/ FunctionApply
    \/ EmitNode
    \/ WriteOutput

Spec == Init /\ [][Next]_vars


(***************************************************************************)
(* fix_cmake_files.py.  Text is a sequence of characters.                  *)
(***************************************************************************)
MaxPieces == 3
MaxRuns == 2

\* the prefix written in the two patterns' lookbehind: ${CMAKE_SYSROOT}
LookbehindPrefix == <<"$", "{", "C", "M", "A", "K", "E", "_", "S", "Y", "S", "R", "O", "O", "T", "}">>

\* the groups of pattern_usr and pattern_opt
TokenUsr == <<"/", "u", "s", "r">>
TokenOpt == <<"/", "o", "p", "t">>

\* PathReplacer.__init__: the default argument and the values given with --sysroot
DefaultSysroot == <<"$", "{", "C", "M", "A", "K", "E", "_", "S", "Y", "S", "R", "O", "O", "T", "}">>
SysrootArgs == {DefaultSysroot, <<"$", "{", "S", "Y", "S", "R", "O", "O", "T", "}">>, <<"/", "o", "p", "t", "/", "s", "d", "k">>}

patterns == <<TokenUsr, TokenOpt>>

\* (?<!\$\{CMAKE_SYSROOT\}) before position i
LookbehindOk(content, i) ==
    ~(/\ i - Len(LookbehindPrefix) >= 1
      /\ SubSeq(content, i - Len(LookbehindPrefix), i - 1) = LookbehindPrefix)

\* (?=/|$) at position j: a slash, the end of the string, or the newline that ends the string
LookaheadOk(content, j) ==
    \/ j > Len(content)
    \/ content[j] = "/"
    \/ (j = Len(content) /\ content[j] = "\n")

MatchAt(content, i, token) ==
    /\ i + Len(token) - 1 <= Len(content)
    /\ SubSeq(content, i, i + Len(token) - 1) = token
    /\ LookbehindOk(content, i)
    /\ LookaheadOk(content, i + Len(token))

\* re.subn(pattern, sysroot + group 1, content)[0]: the matches, left to right, not overlapping
RECURSIVE SubFrom(_, _, _, _)
SubFrom(content, i, token, prefix) ==
    IF i > Len(content) THEN <<>>
    ELSE IF MatchAt(content, i, token)
    THEN prefix \o token \o SubFrom(content, i + Len(token), token, prefix)
    ELSE <<content[i]>> \o SubFrom(content, i + 1, token, prefix)

\* one pattern of the loop of replace_paths
replace_one(content, token, prefix) == SubFrom(content, 1, token, prefix)

\* PathReplacer.replace_paths
RECURSIVE replace_from(_, _, _)
replace_from(content, p, prefix) ==
    IF p > Len(patterns) THEN content
    ELSE replace_from(replace_one(content, patterns[p], prefix), p + 1, prefix)

replace_paths(content, cmake_sysroot_var) == replace_from(content, 1, cmake_sysroot_var)

\* the file names of the tree, and the test of FixCMakeFilesApp.run
FileCMake == <<"a", ".", "c", "m", "a", "k", "e">>
FilePc == <<"b", ".", "p", "c">>
FileTxt == <<"c", ".", "t", "x", "t">>
FileNames == {FileCMake, FilePc, FileTxt}

EndsWith(name, suffix) ==
    /\ Len(name) >= Len(suffix)
    /\ SubSeq(name, Len(name) - Len(suffix) + 1, Len(name)) = suffix

IsProcessed(name) == EndsWith(name, <<".", "c", "m", "a", "k", "e">>) \/ EndsWith(name, <<".", "p", "c">>)

\* the contents of the files: up to MaxPieces pieces, one after the other
Pieces == {TokenUsr, TokenOpt, <<"/">>, <<"x">>, <<"\n">>, DefaultSysroot}

RECURSIVE Texts(_)
Texts(n) ==
    IF n = 0 THEN {<<>>}
    ELSE LET shorter == Texts(n - 1)
         IN  shorter \cup {t \o piece : t \in shorter, piece \in Pieces}

Contents == Texts(MaxPieces)

NoBackup == [present |-> FALSE, content |-> <<>>]

TensorIdle ==
    /\ input = NoTensor
    /\ fill = ""
    /\ heap = <<>>
    /\ module = NoModule
    /\ out = NoOut
    /\ node = NoNode
    /\ wrote = FALSE

\* the tree before the first run, and the command line of main
InitFix ==
    /\ TensorIdle
    /\ sysroot \in SysrootArgs
    /\ backup \in BOOLEAN
    /\ \E c \in Contents, d \in {TokenUsr \o <<"/">> \o TokenOpt, <<"x">>} :
          files = [n \in FileNames |->
                      IF n = FileCMake THEN c
                      ELSE IF n = FilePc THEN d
                      ELSE TokenUsr \o <<"/", "x">>]
    /\ backups = [n \in FileNames |-> NoBackup]
    /\ modified = {}
    /\ runs = 0

\* CMakeFileProcessor.process_file: TRUE when the file is rewritten
Rewritten(name, fs, prefix) == replace_paths(fs[name], prefix) # fs[name]

\* main: FixCMakeFilesApp.run with the replacer built from --sysroot,
\* process_file (and _create_backup) on every .cmake and .pc file of the tree
Main ==
    /\ runs < MaxRuns
    /\ files' = [n \in FileNames |->
                    IF IsProcessed(n) THEN replace_paths(files[n], sysroot) ELSE files[n]]
    /\ backups' = [n \in FileNames |->
                      IF IsProcessed(n) /\ Rewritten(n, files, sysroot) /\ backup
                      THEN [present |-> TRUE, content |-> files[n]]
                      ELSE backups[n]]
    /\ modified' = {n \in FileNames : IsProcessed(n) /\ Rewritten(n, files, sysroot)}
    /\ runs' = runs + 1
    /\ UNCHANGED sysroot
    /\ UNCHANGED backup
    /\ UNCHANGED tvars

NextFix ==
    \/ Main

SpecFix == InitFix /\ [][NextFix]_vars


(***************************************************************************)
(* The claims.                                                             *)
(***************************************************************************)
\* value of tensor t at multi-index idx
At(h, t, idx) == h[t.storage][Offset(t, idx) + 1]

Range(f) == {f[k] : k \in DOMAIN f}

\* the preconditions of the transform: rank 4, block size >= 1, channels divisible
ValidInvocation ==
    /\ Len(input.size) = 4
    /\ out.block_size >= 1
    /\ input.size[2] % (out.block_size * out.block_size) = 0

\* a forward has returned or raised and the caller has not yet written to the result
Forwarded == out.status # "none" /\ ~wrote

ExpectedShape ==
    <<input.size[1], input.size[2] \div (out.block_size * out.block_size),
      input.size[3] * out.block_size, input.size[4] * out.block_size>>

\* the channel read for output channel c and block offsets (by, bx), as the spec states it
RefChannel(mode, c, by, bx, s, cout) ==
    IF mode = "CRD" THEN c * s * s + by * s + bx
    ELSE by * s * cout + bx * cout + c

\* the returned tensor has the expected shape and reads the input by the mode's formula
MatchesReference(mode) ==
    LET s == out.block_size
        cout == input.size[2] \div (s * s)
    IN  /\ out.status = "ok"
        /\ out.t.size = ExpectedShape
        /\ \A b \in 0..(input.size[1] - 1), c \in 0..(cout - 1),
              hi \in 0..(input.size[3] - 1), wi \in 0..(input.size[4] - 1),
              by \in 0..(s - 1), bx \in 0..(s - 1) :
                At(heap, out.t, <<b, c, hi * s + by, wi * s + bx>>)
                    = At(heap, input, <<b, RefChannel(mode, c, by, bx, s, cout), hi, wi>>)

\* C1: on every 4-D input whose channel count is divisible by s*s (s >= 1),
\* DepthToSpace_CRD.forward returns shape (b, C/(s*s), h*s, w*s) with
\* out[b, c, h*s+by, w*s+bx] = in[b, c*s*s + by*s + bx, h, w] (the pixel-shuffle reference)
C1_CRDMatchesPixelShuffle ==
    (Forwarded /\ out.cls = "CRD" /\ ValidInvocation) => MatchesReference("CRD")

C1_Witness ==
    /\ Forwarded /\ out.cls = "CRD" /\ out.status = "ok"
    /\ fill = "literal" /\ out.block_size = 2

\* C2: on every 4-D input whose channel count is divisible by s*s (s >= 1),
\* DepthToSpace_DCR.forward returns shape (b, C_out, h*s, w*s) with
\* out[b, c, h*s+by, w*s+bx] = in[b, by*s*C_out + bx*C_out + c, h, w]
C2_DCRMatchesFormula ==
    (Forwarded /\ out.cls = "DCR" /\ ValidInvocation) => MatchesReference("DCR")

C2_Witness ==
    /\ Forwarded /\ out.cls = "DCR" /\ out.status = "ok"
    /\ input.size = <<1, 8, 2, 2>> /\ fill = "arange" /\ out.block_size = 2

\* C3: in both modes the transform is a bijection between input and output
\* elements: on an input of pairwise distinct values the output has as many
\* elements as the input, holds every input value and holds no value twice
C3_Bijection ==
    (Forwarded /\ ValidInvocation /\ fill = "arange") =>
        /\ out.status = "ok"
        /\ LET ov == Values(heap, out.t)
               iv == Values(heap, input)
           IN  /\ Len(ov) = Len(iv)
               /\ Range(ov) = Range(iv)
               /\ Cardinality(Range(ov)) = Len(ov)

C3_Witness ==
    /\ Forwarded /\ out.status = "ok" /\ fill = "arange"
    /\ out.block_size = 2 /\ input.size = <<1, 8, 2, 2>>
    /\ input.stride # ContiguousStrides(input.size)

\* the result of the other mode's forward on the same input
OtherModeValues ==
    LET r == Apply(IF out.cls = "DCR" THEN "CRD" ELSE "DCR",
                   <<heap[input.storage]>>, input, out.block_size, out.mode)
    IN  IF r.status = "ok" THEN Values(r.heap, r.t) ELSE <<>>

\* C4: whenever block_size > 1 and C_in/block_size^2 > 1 the DCR and the CRD
\* results differ at some coordinate of every tensor that has an element and
\* pairwise distinct values (so the two index mappings differ), and they differ
\* on the literal (1,8,2,2) input of the test with block_size = 2
C4_ModesDiffer ==
    (/\ Forwarded /\ ValidInvocation /\ out.status = "ok"
     /\ out.block_size > 1
     /\ input.size[2] \div (out.block_size * out.block_size) > 1
     /\ Numel(input.size) > 0)
        => Values(heap, out.t) # OtherModeValues

C4_Witness ==
    /\ Forwarded /\ out.status = "ok" /\ out.cls = "DCR"
    /\ fill = "literal" /\ out.block_size = 2
    /\ Len(OtherModeValues) = Len(LiteralData)

\* C5: every invocation that violates a precondition (rank other than 4,
\* block_size < 1, channel count not divisible by block_size^2) fails with an
\* error and returns no tensor
C5_PreconditionRejected ==
    (out.status # "none" /\ ~ValidInvocation) => out.status = "error"

\* C6: an invocation with a mode outside {DCR, CRD} fails and produces no
\* output tensor: through create_model, through a directly constructed module,
\* and through Function.apply
C6_UnsupportedModeRejected ==
    (/\ out.status # "none" /\ out.mode \notin Modes
     /\ ValidInvocation /\ Numel(input.size) > 0)
        => out.status = "error"

\* C7: emitting the node fails exactly when the eager forward fails for the
\* same block size and mode (the input being one the block size admits)
C7_SharedValidation ==
    (/\ node.status # "none" /\ out.status # "none" /\ out.via = "module"
     /\ Len(input.size) = 4 /\ Numel(input.size) > 0
     /\ (out.block_size >= 1 => input.size[2] % (out.block_size * out.block_size) = 0))
        => (node.status = "error" <=> out.status = "error")

\* C8: an emitted node is named DepthToSpace, carries the block size of the
\* module's eager forward, and its mode attribute names the mode whose index
\* mapping that forward computes
C8_AttributesCorrect ==
    (/\ node.status = "ok" /\ Forwarded /\ out.via = "module" /\ out.status = "ok"
     /\ ValidInvocation /\ Numel(input.size) > 0)
        => /\ node.op = "DepthToSpace"
           /\ node.blocksize = out.block_size
           /\ node.mode \in Modes
           /\ MatchesReference(node.mode)

\* C9: a valid invocation leaves the input's buffer unchanged and returns a
\* tensor in a storage of its own, so that no later write to the output
\* changes the input
C9_FreshOutput ==
    (out.status = "ok" /\ ValidInvocation /\ Numel(input.size) > 0)
        => /\ out.t.storage # input.storage
           /\ heap[input.storage] = InitialBuffer(fill, input)

\* C10: replace_paths is idempotent for every configured sysroot prefix: after
\* a run every processed file is a fixed point of replace_paths, so a second
\* run rewrites no file and no backup
C10_Idempotent ==
    runs >= 1 =>
        \A n \in FileNames :
            IsProcessed(n) => replace_paths(files[n], sysroot) = files[n]


====
